---- MODULE Spec2Model ----
(***************************************************************************)
(* Model of src/ig_access.py (class IGAccess): the text parser             *)
(* _clean_list, the two list materialization loops (_get_list_of_users,    *)
(* _get_likes_from_post), collect_posts_data with the walker               *)
(* _get_like_data, collect_follow_data with its two helpers,               *)
(* collect_follow_diff and output_data.                                    *)
(*                                                                         *)
(* A rendered text is a sequence of symbols: the newline NL or a word.     *)
(* A line is the sequence of words between two newlines, so that           *)
(* str.split('\n') is computed, not assumed.  A user name of the result    *)
(* is a line, with the word VerifiedTag appended by `name += ...`.         *)
(* Times are counted in tenths of a second (0.5 s = 5, 5 s = 50).          *)
(***************************************************************************)
EXTENDS Integers, Sequences, FiniteSets, TLC

VARIABLES
    pc,             \* position of the running method
    raw_string,     \* text of the list panel last handed to _clean_list
    list_of_users,  \* local list_of_users / return_list
    num_users,      \* _get_list_of_users: parameter num_users
    num_of_likes,   \* _get_likes_from_post: local num_of_likes
    last_count,     \* _get_likes_from_post: local last_count
    update_delay,   \* _get_likes_from_post: local update_delay (tenths of s)
    polls,          \* history: loop iterations of the running materialization
    frozen,         \* history: consecutive iterations with an unchanged count
    strict,         \* history: every iteration so far increased the count
    since_inc,      \* history: iterations since the count last increased
    ops,            \* history: driver operations of the last iteration, in order
    num_of_posts,   \* collect_posts_data: local num_of_posts
    data_per_post,  \* collect_posts_data: local data_per_post (list of dicts)
    scan_i,         \* collect_posts_data: loop index i of the first pass
    links,          \* post ids of the '/p/' links of the page source last read
    walk_i,         \* _get_like_data: loop index i
    shown,          \* browser: position of the post the viewer shows (0: none)
    stopped_at,     \* history: position of the record at which the viewer
                    \* had no next arrow for the first time (0: not yet)
    data,           \* self.data: per username, a dictionary
    file,           \* analytic_data.json, as open / json.load find it
    affordance,     \* profile page: which of the two count links exist
    phase,          \* collect_follow_data: the helper that is running
    followers,      \* collect_follow_data: local followers
    following,      \* collect_follow_data: local following
    diff_i,         \* collect_follow_diff: profiles handled so far
    loaded          \* output_data: local data, the value read from the file

matVars == <<num_users, num_of_likes, last_count, update_delay,
             polls, frozen, strict, since_inc, ops>>
postVars == <<num_of_posts, data_per_post, scan_i, links, walk_i, shown, stopped_at>>
appVars == <<data, file, affordance, phase, followers, following, diff_i, loaded>>
vars == <<pc, raw_string, list_of_users, matVars, postVars, appVars>>

----------------------------------------------------------------------------
(* Bounds of the model *)

MaxRaw == 6       \* longest text (in symbols) handed to the parser alone
MaxShown == 4     \* most entries the list panel shows at once
MaxTarget == 5    \* largest count read from the page (followers, likes)
MaxPolls == 12    \* most iterations followed in one materialization loop
MaxIds == 15      \* most posts the profile page links to
MaxPosts == 13    \* largest post count the profile page displays
WalkPosts == 2    \* largest displayed post count, when the walker is followed
WalkIds == 2      \* most posts the page links to, when the walker is followed
WalkTarget == 3   \* largest like count read from a post, within the walker
MaxList == 2      \* longest followers / following list held in self.data
FollowTarget == 2 \* largest count read from a count link, in collect_follow_data

----------------------------------------------------------------------------
(* Text and the parser _clean_list *)

NL == "\n"
Follow == "Follow"
Following == "Following"
Verified == "Verified"
VerifiedTag == " (Verified)"

Words == {"a", Follow, Following, Verified}
Symbols == Words \cup {NL}

\* every text of at most n symbols
RECURSIVE Texts(_)
Texts(n) ==
    IF n = 0 THEN {<<>>}
    ELSE LET shorter == Texts(n - 1)
         IN  shorter \cup {Append(t, c) : t \in {u \in shorter : Len(u) = n - 1},
                                          c \in Symbols}

\* raw_string.split('\n'): the pieces between newlines, always at least one
RECURSIVE split(_)
split(s) ==
    IF \A k \in 1..Len(s) : s[k] # NL THEN <<s>>
    ELSE LET k == CHOOSE j \in 1..Len(s) :
                      s[j] = NL /\ \A h \in 1..(j - 1) : s[h] # NL
         IN  <<SubSeq(s, 1, k - 1)>> \o split(SubSeq(s, k + 1, Len(s)))

\* the condition of line 474 with the second label forgotten
IsNameLineOneLabel(raw_list, i) ==
    i = 1 \/ raw_list[i - 1] \in {<<Follow>>}

\* the condition of line 474, at the 1-based position i
IsNameLine(raw_list, i) ==
    i = 1 \/ raw_list[i - 1] \in {<<Following>>, <<Follow>>}

\* lines 475-481: the name, tagged when the next line is the Verified marker;
\* the IndexError of a missing next line is swallowed
TaggedName(raw_list, i) ==
    IF i + 1 <= Len(raw_list) /\ raw_list[i + 1] = <<Verified>>
    THEN Append(raw_list[i], VerifiedTag)
    ELSE raw_list[i]

\* the loop of lines 472-482, from position i on
RECURSIVE CleanFrom(_, _, _)
CleanFrom(raw_list, i, return_list) ==
    IF i > Len(raw_list) THEN return_list
    ELSE CleanFrom(raw_list, i + 1,
                   IF IsNameLine(raw_list, i)
                   THEN Append(return_list, TaggedName(raw_list, i))
                   ELSE return_list)

clean_list(raw) == CleanFrom(split(raw), 1, <<>>)

----------------------------------------------------------------------------
(* The parser alone: _clean_list applied to every bounded text *)

MatIdle ==
    /\ num_users = 0 /\ num_of_likes = 0 /\ last_count = 0
    /\ update_delay = 0 /\ polls = 0 /\ frozen = 0 /\ strict = TRUE
    /\ since_inc = 0 /\ ops = <<>>

PostIdle ==
    /\ num_of_posts = 0 /\ data_per_post = <<>> /\ scan_i = 0 /\ links = <<>>
    /\ walk_i = 0 /\ shown = 0 /\ stopped_at = 0

\* an empty dictionary
EmptyDict == <<>>

\* the file does not exist
Missing == [kind |-> "missing"]

\* the value json.load returned: a dictionary, or a value of another type
Dict(d) == [is_dict |-> TRUE, map |-> d]
NotDict == [is_dict |-> FALSE, map |-> EmptyDict]

\* the profile collect_follow_data / collect_posts_data is called for
Username == "user"

\* self.data[username] as collect_follow_data leaves it
FollowData(num_a, list_a, num_b, list_b) ==
    [num_followers |-> num_a, followers |-> list_a,
     num_following |-> num_b, following |-> list_b]

\* self.data before collect_posts_data: empty, or holding the follow data
PriorData ==
    {EmptyDict,
     Username :> FollowData(1, << <<"a">> >>, 0, <<>>)}

\* lines 181-184 / 278-281: self.data[username], created empty when missing
Profile(d, username) == IF username \in DOMAIN d THEN d[username] ELSE EmptyDict

AppIdle ==
    /\ data = EmptyDict /\ file = Missing
    /\ affordance = [followers |-> FALSE, following |-> FALSE]
    /\ phase = "none" /\ followers = <<>> /\ following = <<>> /\ diff_i = 0
    /\ loaded = Dict(EmptyDict)

InitParse ==
    /\ pc = "clean_call"
    /\ raw_string \in Texts(MaxRaw)
    /\ list_of_users = <<>>
    /\ MatIdle
    /\ PostIdle
    /\ AppIdle

CleanList ==
    /\ pc = "clean_call"
    /\ list_of_users' = clean_list(raw_string)
    /\ pc' = "clean_returned"
    /\ UNCHANGED <<raw_string, matVars, postVars, appVars>>

NextParse == CleanList

SpecParse == InitParse /\ [][NextParse]_vars

----------------------------------------------------------------------------
(* The list panel: the texts its element _b9n99 may show when it is read *)

Names == <<"a", "b", "c", "d", "e", "f", "g", "h">>

\* entries from..to of the list, one name per entry, a button label between
RECURSIVE Window(_, _)
Window(from, to) ==
    IF from > to THEN <<>>
    ELSE IF from = to THEN <<Names[from]>>
    ELSE <<Names[from], NL, Follow, NL>> \o Window(from + 1, to)

\* the first entry shown twice
TwiceText == <<Names[1], NL, Follow, NL, Names[1]>>

\* a verified first entry and a second entry
VerifiedText == <<Names[1], NL, Verified, NL, Following, NL, Names[2]>>

\* the panel may show any window of the list (it grows, and it may drop
\* entries scrolled away), nothing yet, or one of the two texts above
Snapshots(n) ==
    {Window(from, to) : from \in 1..n, to \in 1..n} \cup {TwiceText, VerifiedText}

Counts(n) == 0..n

\* what one materialization run may read
Panel == Snapshots(MaxShown)
Targets == Counts(MaxTarget)

----------------------------------------------------------------------------
(* _get_list_of_users (lines 353-379) *)

\* history of one loop iteration: the count before and after it
Frozen(before, after) == IF after = before THEN frozen + 1 ELSE 0
Strict(before, after) == strict /\ after > before
SinceInc(before, after) == IF after > before THEN 0 ELSE since_inc + 1

\* line 364 / line 423: the panel is read, nothing else
FirstOps == <<"read">>

\* lines 366, 367, 375 / lines 431, 432, 441: the scroll, the reading of the
\* panel, the sleep of 0.5 s
LoopOps == <<"scroll", "read", "sleep">>

\* line 364: the first reading of the panel
UsersStart(S) ==
    /\ pc = "users_call"
    /\ \E s \in S :
         /\ raw_string' = s
         /\ list_of_users' = clean_list(s)
    /\ pc' = "users_loop"
    /\ polls' = 0 /\ frozen' = 0 /\ strict' = TRUE
    /\ since_inc' = 0 /\ ops' = FirstOps
    /\ UNCHANGED <<num_users, num_of_likes, last_count, update_delay, postVars, appVars>>

\* the loop condition of line 365 stopping one entry early
UsersMoreButOne(list, target) == Len(list) + 1 < target

\* the loop condition of line 365
UsersMore(list, target) == Len(list) < target

\* lines 365-375: one iteration (scroll, read, parse, sleep)
UsersPoll(S) ==
    /\ pc = "users_loop"
    /\ UsersMore(list_of_users, num_users)
    /\ polls < MaxPolls
    /\ \E s \in S :
         /\ raw_string' = s
         /\ list_of_users' = clean_list(s)
    /\ polls' = polls + 1
    /\ frozen' = Frozen(Len(list_of_users), Len(list_of_users'))
    /\ strict' = Strict(Len(list_of_users), Len(list_of_users'))
    /\ since_inc' = SinceInc(Len(list_of_users), Len(list_of_users'))
    /\ ops' = LoopOps
    /\ UNCHANGED <<pc, num_users, num_of_likes, last_count, update_delay, postVars, appVars>>

\* lines 377-379: the loop condition fails, the list is returned
UsersReturn ==
    /\ pc = "users_loop"
    /\ ~UsersMore(list_of_users, num_users)
    /\ pc' = "users_returned"
    /\ UNCHANGED <<raw_string, list_of_users, matVars, postVars, appVars>>

----------------------------------------------------------------------------
(* _get_likes_from_post (lines 406-461) *)

PollDelay == 5      \* line 444: 0.5 s
StallLimit == 50    \* line 448: 5 s

\* lines 414-425: the like count is read, the panel is read a first time
LikesStart(S, T) ==
    /\ pc = "likes_call"
    /\ \E n \in T : num_of_likes' = n
    /\ \E s \in S :
         /\ raw_string' = s
         /\ list_of_users' = clean_list(s)
    /\ update_delay' = 0
    /\ pc' = "likes_loop"
    /\ polls' = 0 /\ frozen' = 0 /\ strict' = TRUE
    /\ since_inc' = 0 /\ ops' = FirstOps
    /\ UNCHANGED <<num_users, last_count, postVars, appVars>>

\* the loop condition of line 427
LikesMore(list, target) == Len(list) < target

\* lines 443-446 with the reset of line 446 forgotten
NextDelayNoReset(delay, count, last) == delay + PollDelay

\* lines 443-446
NextDelay(delay, count, last) ==
    IF count = last THEN delay + PollDelay ELSE 0

\* line 448 comparing with > instead of ==
AfterPollOverLimit(delay, count, target) ==
    IF delay > StallLimit
    THEN IF ~(count + 1 = target) THEN "likes_raised" ELSE "likes_returned"
    ELSE "likes_loop"

\* lines 448-459 without the off-by-one test of line 449
AfterPollNoTolerance(delay, count, target) ==
    IF delay = StallLimit THEN "likes_raised" ELSE "likes_loop"

\* lines 448-459: where the iteration ends
AfterPoll(delay, count, target) ==
    IF delay = StallLimit
    THEN IF ~(count + 1 = target) THEN "likes_raised" ELSE "likes_returned"
    ELSE "likes_loop"

\* lines 427-459: one iteration (scroll, read, parse, sleep, stall decision)
LikesPoll(S) ==
    /\ pc = "likes_loop"
    /\ LikesMore(list_of_users, num_of_likes)
    /\ polls < MaxPolls
    /\ last_count' = Len(list_of_users)
    /\ \E s \in S :
         /\ raw_string' = s
         /\ list_of_users' = clean_list(s)
    /\ update_delay' = NextDelay(update_delay, Len(list_of_users'), last_count')
    /\ pc' = AfterPoll(update_delay', Len(list_of_users'), num_of_likes)
    /\ polls' = polls + 1
    /\ frozen' = Frozen(Len(list_of_users), Len(list_of_users'))
    /\ strict' = Strict(Len(list_of_users), Len(list_of_users'))
    /\ since_inc' = SinceInc(Len(list_of_users), Len(list_of_users'))
    /\ ops' = LoopOps
    /\ UNCHANGED <<num_users, num_of_likes, postVars, appVars>>

\* line 461 after the loop condition failed
LikesReturn ==
    /\ pc = "likes_loop"
    /\ ~LikesMore(list_of_users, num_of_likes)
    /\ pc' = "likes_returned"
    /\ UNCHANGED <<raw_string, list_of_users, matVars, postVars, appVars>>

----------------------------------------------------------------------------
(* One materialization run, of either kind *)

Init ==
    /\ pc \in {"users_call", "likes_call"}
    /\ raw_string = <<>>
    /\ list_of_users = <<>>
    /\ num_users \in IF pc = "users_call" THEN Targets ELSE {0}
    /\ num_of_likes = 0 /\ last_count = 0 /\ update_delay = 0
    /\ polls = 0 /\ frozen = 0 /\ strict = TRUE
    /\ since_inc = 0 /\ ops = <<>>
    /\ PostIdle
    /\ AppIdle

Next ==
    \/ UsersStart(Panel)
    \/ UsersPoll(Panel)
    \/ UsersReturn
    \/ LikesStart(Panel, Targets)
    \/ LikesPoll(Panel)
    \/ LikesReturn

Spec == Init /\ [][Next]_vars

----------------------------------------------------------------------------
(* collect_posts_data, first pass (lines 214-265) *)

PostIds == <<"p01", "p02", "p03", "p04", "p05", "p06", "p07", "p08", "p09",
             "p10", "p11", "p12", "p13", "p14", "p15", "p16", "p17", "p18">>

\* the '/p/' links of a page that shows the posts from..to of the profile
Feed(from, to) ==
    IF from > to THEN <<>>
    ELSE [k \in 1..(to - from + 1) |-> PostIds[from + k - 1]]

\* a page that links the first post twice
TwiceLinked == <<PostIds[1], PostIds[2], PostIds[1]>>

\* the page as first loaded: the newest posts
FirstPages(n) == {Feed(1, to) : to \in 0..n} \cup {TwiceLinked}

\* the page after a scroll: any window of the posts
LaterPages(n) == {Feed(from, to) : from \in 1..n, to \in 1..n} \cup {TwiceLinked}

\* what the first pass may read
ScanCounts == Counts(MaxPosts)
ScanFirst == FirstPages(MaxIds)
ScanLater == LaterPages(MaxIds)

\* the comment count the hover shows, as cut by split('c')[0]
CommentTexts == {"3 "}

Batch == 12    \* line 251

\* line 233 / line 265: a dictionary holding the id alone
NewPost(id) == [id |-> id]

\* lines 230-233: one dictionary per link, in page order
RECURSIVE Collect(_)
Collect(page) ==
    IF page = <<>> THEN <<>>
    ELSE <<NewPost(Head(page))>> \o Collect(Tail(page))

\* data_per_post[k][key] = value
SetKey(posts, k, key, value) ==
    [posts EXCEPT ![k] = (key :> value) @@ @]

\* [dict_['id'] for dict_ in data_per_post]
Ids(posts) == [k \in 1..Len(posts) |-> posts[k].id]

\* lines 260-265 without the test of line 264
RECURSIVE AppendAll(_, _)
AppendAll(posts, page) ==
    IF page = <<>> THEN posts
    ELSE AppendAll(Append(posts, NewPost(Head(page))), Tail(page))

\* lines 260-265: the ids of the refreshed page that are not recorded yet
RECURSIVE AppendNew(_, _)
AppendNew(posts, page) ==
    IF page = <<>> THEN posts
    ELSE LET new_id == Head(page)
         IN  AppendNew(IF new_id \notin {posts[k].id : k \in 1..Len(posts)}
                       THEN Append(posts, NewPost(new_id))
                       ELSE posts,
                       Tail(page))

\* lines 218-233: the page is loaded, the count and the links are read
InitPosts(N, P) ==
    /\ pc = "scan_loop"
    /\ num_of_posts \in N
    /\ links \in P
    /\ data_per_post = Collect(links)
    /\ scan_i = 0
    /\ walk_i = 0 /\ shown = 0 /\ stopped_at = 0
    /\ raw_string = <<>>
    /\ list_of_users = <<>>
    /\ MatIdle
    /\ data \in PriorData
    /\ file = Missing
    /\ affordance = [followers |-> FALSE, following |-> FALSE]
    /\ phase = "none" /\ followers = <<>> /\ following = <<>> /\ diff_i = 0
    /\ loaded = Dict(EmptyDict)

\* lines 235-265: one item of the first pass; data_per_post[i] of line 236
\* fails with IndexError when the list is shorter than the displayed count
ScanItem(C, P) ==
    /\ pc = "scan_loop"
    /\ scan_i < num_of_posts
    /\ IF scan_i + 1 > Len(data_per_post)
       THEN /\ pc' = "scan_index_error"
            /\ UNCHANGED <<data_per_post, scan_i, links>>
       ELSE /\ \E comments \in C :
                 LET filled == SetKey(data_per_post, scan_i + 1, "comments", comments)
                 IN  IF (scan_i + 1) % Batch = 0
                     THEN \E page \in P :
                              /\ links' = page
                              /\ data_per_post' = AppendNew(filled, page)
                     ELSE /\ data_per_post' = filled
                          /\ UNCHANGED links
            /\ scan_i' = scan_i + 1
            /\ pc' = pc
    /\ UNCHANGED <<num_of_posts, walk_i, shown, stopped_at>>
    /\ UNCHANGED <<raw_string, list_of_users, matVars, appVars>>

\* line 268: the first pass is over, _get_like_data is called
ScanEnd ==
    /\ pc = "scan_loop"
    /\ scan_i = num_of_posts
    /\ pc' = "walk_call"
    /\ UNCHANGED <<raw_string, list_of_users, matVars, postVars, appVars>>

InitScan == InitPosts(ScanCounts, ScanFirst)

NextScan ==
    \/ ScanItem(CommentTexts, ScanLater)
    \/ ScanEnd

SpecScan == InitScan /\ [][NextScan]_vars

----------------------------------------------------------------------------
(* _get_like_data (lines 381-404) within collect_posts_data *)

\* what the whole of collect_posts_data may read
WalkCounts == Counts(WalkPosts)
WalkFirst == FirstPages(WalkIds)
WalkLater == LaterPages(WalkIds)
WalkPanel == {<<>>, Window(1, 1), TwiceText}
WalkTargets == Counts(WalkTarget)

\* lines 385-392: the first image is clicked (IndexError passed over when
\* there is no post), the loop over the records begins
WalkStart ==
    /\ pc = "walk_call"
    /\ shown' = IF Len(data_per_post) > 0 THEN 1 ELSE 0
    /\ walk_i' = 0
    /\ pc' = IF Len(data_per_post) > 0 THEN "likes_call" ELSE "walk_returned"
    /\ UNCHANGED <<num_of_posts, data_per_post, scan_i, links, stopped_at>>
    /\ UNCHANGED <<raw_string, list_of_users, matVars, appVars>>

\* lines 401-404: where the loop goes after the advance found no next arrow
AfterLastPost(index, posts) ==
    IF index < Len(posts) THEN "likes_call" ELSE "walk_returned"

\* lines 395-404: _get_likes_from_post has returned; its list is stored in
\* the record, the next arrow is clicked if the viewer has one, and the loop
\* goes on to the next record
WalkStore ==
    /\ pc = "likes_returned"
    /\ data_per_post' =
           SetKey(SetKey(data_per_post, walk_i + 1, "likes", Len(list_of_users)),
                  walk_i + 1, "liked_by", list_of_users)
    /\ walk_i' = walk_i + 1
    /\ \E arrow \in (IF stopped_at = 0 THEN BOOLEAN ELSE {FALSE}) :
         IF arrow
         THEN /\ shown' = shown + 1
              /\ stopped_at' = stopped_at
              /\ pc' = IF walk_i' < Len(data_per_post)
                       THEN "likes_call" ELSE "walk_returned"
         ELSE /\ shown' = shown
              /\ stopped_at' = IF stopped_at = 0 THEN walk_i + 1 ELSE stopped_at
              /\ pc' = AfterLastPost(walk_i', data_per_post)
    /\ UNCHANGED <<num_of_posts, scan_i, links>>
    /\ UNCHANGED <<raw_string, list_of_users, matVars, appVars>>

\* lines 395 and 268: the IGAccessException of _get_likes_from_post is caught
\* neither in _get_like_data nor in collect_posts_data; retried instead
StallRetried == "likes_call"

\* lines 395 and 268: the IGAccessException of _get_likes_from_post is caught
\* neither in _get_like_data nor in collect_posts_data
StallGoesTo == "posts_raised"

WalkRaise ==
    /\ pc = "likes_raised"
    /\ pc' = StallGoesTo
    /\ UNCHANGED <<raw_string, list_of_users, matVars, postVars, appVars>>

\* line 271: sum([data['likes'] for data in data_per_post])
RECURSIVE SumLikes(_)
SumLikes(posts) ==
    IF posts = <<>> THEN 0 ELSE Head(posts).likes + SumLikes(Tail(posts))

RECURSIVE Gcd(_, _)
Gcd(a, b) == IF b = 0 THEN a ELSE Gcd(b, a % b)

\* the number a / b of true division, as a fraction in lowest terms
Quotient(a, b) == [num |-> a \div Gcd(a, b), den |-> b \div Gcd(a, b)]

\* the number 0 of line 273
Zero == [num |-> 0, den |-> 1]

\* lines 273-275 without the test of line 274
AverageNoTest(total, count) == [num |-> total, den |-> count]

\* lines 273-275
Average(total, count) ==
    IF count # 0 THEN Quotient(total, count) ELSE Zero

\* lines 270-284: the totals, and the three keys stored in self.data
Aggregate ==
    /\ pc = "walk_returned"
    /\ LET total_likes == SumLikes(data_per_post)
           avg_likes == Average(total_likes, Len(data_per_post))
       IN  data' = (Username :>
                       ([data_per_post |-> data_per_post,
                         total_likes |-> total_likes,
                         avg_likes |-> avg_likes] @@ Profile(data, Username)))
                   @@ data
    /\ pc' = "posts_returned"
    /\ UNCHANGED <<file, affordance, phase, followers, following, diff_i, loaded>>
    /\ UNCHANGED <<raw_string, list_of_users, matVars, postVars>>

InitWalk == InitPosts(WalkCounts, WalkFirst)

NextWalk ==
    \/ ScanItem(CommentTexts, WalkLater)
    \/ ScanEnd
    \/ WalkStart
    \/ LikesStart(WalkPanel, WalkTargets)
    \/ LikesPoll(WalkPanel)
    \/ LikesReturn
    \/ WalkStore
    \/ WalkRaise
    \/ Aggregate

SpecWalk == InitWalk /\ [][NextWalk]_vars

----------------------------------------------------------------------------
(* collect_follow_diff (lines 190-212) *)

\* the entries the follow lists may hold: names as _clean_list returns them
Entries == {<<"a">>, <<"b">>, <<"a", VerifiedTag>>}

\* every list of at most n entries
RECURSIVE Lists(_)
Lists(n) ==
    IF n = 0 THEN {<<>>}
    ELSE LET shorter == Lists(n - 1)
         IN  shorter \cup {Append(l, e) : l \in {u \in shorter : Len(u) = n - 1},
                                          e \in Entries}

\* a second profile of the dataset
Other == "other"

\* self.data[username] as collect_posts_data leaves it for a profile without
\* posts, when collect_follow_data was not called for it
PostsOnly == [data_per_post |-> <<>>, total_likes |-> 0, avg_likes |-> Zero]

\* self.data before collect_follow_diff: the follow data of one profile and,
\* for a second profile, nothing, follow data or posts data alone
DiffData ==
    {(Username :> FollowData(Len(a), a, Len(b), b)) @@ rest :
        a \in Lists(MaxList), b \in Lists(MaxList),
        rest \in {EmptyDict,
                  Other :> FollowData(1, << <<"b">> >>, 1, << <<"a">> >>),
                  Other :> PostsOnly}}

\* `for username in self.data`: the keys in the order of their insertion
DiffOrder == <<Username, Other>>
DiffKeys(d) == SelectSeq(DiffOrder, LAMBDA u : u \in DOMAIN d)

\* the comprehensions of lines 200-201 with the test forgotten
WithoutNothing(list, other) == list

\* lines 200-201: [user for user in list if user not in other]
RECURSIVE Without(_, _)
Without(list, other) ==
    IF list = <<>> THEN <<>>
    ELSE IF \A k \in 1..Len(other) : other[k] # Head(list)
         THEN <<Head(list)>> \o Without(Tail(list), other)
         ELSE Without(Tail(list), other)

\* lines 203-204: [user for user in list if '(Verified)' in user]
RECURSIVE VerifiedOf(_)
VerifiedOf(list) ==
    IF list = <<>> THEN <<>>
    ELSE IF \E k \in 1..Len(Head(list)) : Head(list)[k] = VerifiedTag
         THEN <<Head(list)>> \o VerifiedOf(Tail(list))
         ELSE VerifiedOf(Tail(list))

InitDiff ==
    /\ pc = "diff_loop"
    /\ data \in DiffData
    /\ diff_i = 0
    /\ file = Missing
    /\ affordance = [followers |-> FALSE, following |-> FALSE]
    /\ phase = "none" /\ followers = <<>> /\ following = <<>>
    /\ loaded = Dict(EmptyDict)
    /\ raw_string = <<>>
    /\ list_of_users = <<>>
    /\ MatIdle
    /\ PostIdle

\* lines 197-210: one profile; the lookups of lines 197-198 fail with KeyError
\* for a profile that holds no follow data
DiffItem ==
    /\ pc = "diff_loop"
    /\ diff_i < Len(DiffKeys(data))
    /\ LET username == DiffKeys(data)[diff_i + 1]
       IN  IF "followers" \notin DOMAIN data[username]
           THEN /\ pc' = "diff_key_error"
                /\ UNCHANGED <<data, diff_i, followers, following>>
           ELSE /\ followers' = data[username].followers
                /\ following' = data[username].following
                /\ data' = [data EXCEPT ![username] =
                      [not_followed_back |-> Without(following', followers'),
                       not_following_back |-> Without(followers', following'),
                       following_verified |-> VerifiedOf(following'),
                       followed_by_verified |-> VerifiedOf(followers')] @@ @]
                /\ diff_i' = diff_i + 1
                /\ pc' = pc
    /\ UNCHANGED <<file, affordance, phase, loaded>>
    /\ UNCHANGED <<raw_string, list_of_users, matVars, postVars>>

\* line 196: the loop over self.data is over
DiffEnd ==
    /\ pc = "diff_loop"
    /\ diff_i = Len(DiffKeys(data))
    /\ pc' = "diff_returned"
    /\ UNCHANGED <<raw_string, list_of_users, matVars, postVars, appVars>>

NextDiff ==
    \/ DiffItem
    \/ DiffEnd

SpecDiff == InitDiff /\ [][NextDiff]_vars

----------------------------------------------------------------------------
(* output_data (lines 286-315) *)

\* The file is modelled by what open / json.load make of it: it does not
\* exist, it is empty, it is text that is no JSON document, it is bytes that
\* do not decode as text, it is a JSON document that is no object (such as
\* []), or it is a JSON object, held as the dictionary json.load returns for
\* it (and json.dump writes for it: string keys, lists, numbers, strings).
Empty == [kind |-> "empty"]
NotJson == [kind |-> "not_json"]
NotText == [kind |-> "not_text"]
NotObject == [kind |-> "not_object"]
Object(d) == [kind |-> "object", map |-> d]

\* every dictionary with keys among K and values among V
Dicts(K, V) == UNION {[ks -> V] : ks \in SUBSET K}

\* a record an earlier run left in the file
StaleData == FollowData(0, <<>>, 0, <<>>)

\* the file before output_data
Files ==
    {Missing, Empty, NotJson, NotText, NotObject}
        \cup {Object(d) : d \in Dicts({Username, Other}, {StaleData, PostsOnly})}

\* self.data before output_data
RunData ==
    Dicts({Username, Other}, {FollowData(1, << <<"a">> >>, 0, <<>>), PostsOnly})

InitOutput ==
    /\ pc = "output_call"
    /\ file \in Files
    /\ data \in RunData
    /\ loaded = Dict(EmptyDict)
    /\ affordance = [followers |-> FALSE, following |-> FALSE]
    /\ phase = "none" /\ followers = <<>> /\ following = <<>> /\ diff_i = 0
    /\ raw_string = <<>>
    /\ list_of_users = <<>>
    /\ MatIdle
    /\ PostIdle

\* lines 303-307: where the reading of an existing file ends; f.read() of
\* undecodable bytes raises UnicodeDecodeError, which is no JSONDecodeError
LoadedGoesTo(f) ==
    IF f.kind = "not_text" THEN "output_decode_error" ELSE "output_write"

\* lines 297-307: the file is created holding {} when it does not exist,
\* and read otherwise; text that is no JSON gives JSONDecodeError and {}
OutputLoad ==
    /\ pc = "output_call"
    /\ IF file = Missing
       THEN /\ loaded' = Dict(EmptyDict)
            /\ file' = Object(EmptyDict)
            /\ pc' = "output_write"
       ELSE /\ loaded' = IF file.kind = "object" THEN Dict(file.map)
                         ELSE IF file.kind = "not_object" THEN NotDict
                         ELSE IF file.kind = "not_text" THEN loaded
                         ELSE Dict(EmptyDict)
            /\ file' = file
            /\ pc' = LoadedGoesTo(file)
    /\ UNCHANGED <<data, affordance, phase, followers, following, diff_i>>
    /\ UNCHANGED <<raw_string, list_of_users, matVars, postVars>>

\* lines 311-313: data[user] = self.data[user] for every user of self.data
Merged(fresh, old) == fresh @@ old

\* lines 310-315: the file is opened for writing (and so emptied), every
\* profile of self.data is put into the value read, and the value is dumped;
\* data[user] = ... fails with TypeError on a value that is no dictionary
OutputWrite ==
    /\ pc = "output_write"
    /\ IF loaded.is_dict
       THEN /\ loaded' = Dict(Merged(data, loaded.map))
            /\ file' = Object(loaded'.map)
            /\ pc' = "output_returned"
       ELSE IF data = EmptyDict
       THEN /\ loaded' = loaded
            /\ file' = NotObject
            /\ pc' = "output_returned"
       ELSE /\ loaded' = loaded
            /\ file' = Empty
            /\ pc' = "output_type_error"
    /\ UNCHANGED <<data, affordance, phase, followers, following, diff_i>>
    /\ UNCHANGED <<raw_string, list_of_users, matVars, postVars>>

NextOutput ==
    \/ OutputLoad
    \/ OutputWrite

SpecOutput == InitOutput /\ [][NextOutput]_vars

----------------------------------------------------------------------------
(* collect_follow_data, _get_followers, _get_following (lines 163-188,       *)
(* 319-351)                                                                  *)

\* what one call of collect_follow_data may read
FollowPanel == {<<>>, Window(1, 1), Window(1, 2), TwiceText, VerifiedText}
FollowTargets == Counts(FollowTarget)

\* self.data before collect_follow_data: empty, or holding posts data
FollowPrior == {EmptyDict, Username :> PostsOnly}

\* the profile page shows each of the two count links, or does not
InitFollow ==
    /\ pc = "followers_call"
    /\ affordance \in [{"followers", "following"} -> BOOLEAN]
    /\ data \in FollowPrior
    /\ phase = "none" /\ followers = <<>> /\ following = <<>>
    /\ file = Missing /\ diff_i = 0 /\ loaded = Dict(EmptyDict)
    /\ raw_string = <<>>
    /\ list_of_users = <<>>
    /\ MatIdle
    /\ PostIdle

\* lines 324-334 with the handler of line 330 forgotten
HelperAlwaysRuns(present, after) == "users_call"

\* lines 324-334 / 341-351: the helper goes on to _get_list_of_users when the
\* count link was found, and returns [] to its caller otherwise
HelperGoesTo(present, after) == IF present THEN "users_call" ELSE after

\* lines 172, 324-332: _get_followers up to the call of _get_list_of_users
GetFollowers(T) ==
    /\ pc = "followers_call"
    /\ phase' = "followers"
    /\ pc' = HelperGoesTo(affordance.followers, "following_call")
    /\ IF affordance.followers
       THEN /\ \E n \in T : num_users' = n
            /\ UNCHANGED followers
       ELSE /\ followers' = <<>>
            /\ UNCHANGED num_users
    /\ UNCHANGED <<data, file, affordance, following, diff_i, loaded>>
    /\ UNCHANGED <<raw_string, list_of_users, num_of_likes, last_count,
                   update_delay, polls, frozen, strict, since_inc, ops, postVars>>

\* lines 178, 341-349: _get_following up to the call of _get_list_of_users
GetFollowing(T) ==
    /\ pc = "following_call"
    /\ phase' = "following"
    /\ pc' = HelperGoesTo(affordance.following, "follow_store")
    /\ IF affordance.following
       THEN /\ \E n \in T : num_users' = n
            /\ UNCHANGED following
       ELSE /\ following' = <<>>
            /\ UNCHANGED num_users
    /\ UNCHANGED <<data, file, affordance, followers, diff_i, loaded>>
    /\ UNCHANGED <<raw_string, list_of_users, num_of_likes, last_count,
                   update_delay, polls, frozen, strict, since_inc, ops, postVars>>

\* lines 334, 172 / 351, 178: the list _get_list_of_users returned is the
\* result of the helper and is bound to followers / following
HelperReturn ==
    /\ pc = "users_returned"
    /\ IF phase = "followers"
       THEN /\ followers' = list_of_users
            /\ pc' = "following_call"
            /\ UNCHANGED following
       ELSE /\ following' = list_of_users
            /\ pc' = "follow_store"
            /\ UNCHANGED followers
    /\ UNCHANGED <<data, file, affordance, phase, diff_i, loaded>>
    /\ UNCHANGED <<raw_string, list_of_users, matVars, postVars>>

\* lines 180-188: the four keys stored in self.data[username]
FollowStore ==
    /\ pc = "follow_store"
    /\ data' = (Username :>
                   (FollowData(Len(followers), followers,
                               Len(following), following)
                        @@ Profile(data, Username)))
               @@ data
    /\ pc' = "follow_returned"
    /\ UNCHANGED <<file, affordance, phase, followers, following, diff_i, loaded>>
    /\ UNCHANGED <<raw_string, list_of_users, matVars, postVars>>

NextFollow ==
    \/ GetFollowers(FollowTargets)
    \/ GetFollowing(FollowTargets)
    \/ UsersStart(FollowPanel)
    \/ UsersPoll(FollowPanel)
    \/ UsersReturn
    \/ HelperReturn
    \/ FollowStore

SpecFollow == InitFollow /\ [][NextFollow]_vars

----------------------------------------------------------------------------
(* Claims about the materialization loops *)

UsersPcs == {"users_call", "users_loop", "users_returned"}
LikesPcs == {"likes_call", "likes_loop", "likes_returned", "likes_raised"}

\* the idle threshold in loop iterations: 5 s of 0.5 s
IdlePolls == StallLimit \div PollDelay

Range(seq) == {seq[k] : k \in 1..Len(seq)}

\* C1: a followers/following run whose count stayed frozen below the target
\* for the idle threshold (10 iterations) has ended; it is not still polling.
C1_UsersRunEndsOnStall ==
    (pc \in UsersPcs /\ frozen >= IdlePolls /\ Len(list_of_users) < num_users)
        => pc # "users_loop"

\* C2: in the liker run, a count unchanged below the target for 10
\* consecutive iterations, with count + 1 # target, raises the stall error.
C2_FrozenBelowTargetRaises ==
    (/\ pc \in LikesPcs
     /\ frozen >= IdlePolls
     /\ Len(list_of_users) < num_of_likes
     /\ Len(list_of_users) + 1 # num_of_likes)
        => pc = "likes_raised"

C2_Witness ==
    /\ pc = "likes_raised"
    /\ frozen = IdlePolls
    /\ Len(list_of_users) = 2
    /\ num_of_likes = 4

\* C3: in the liker run, a count frozen at target - 1 until the idle
\* threshold ends the run as done, without raising, and the returned list
\* has exactly target - 1 entries.
C3_OffByOneIsDone ==
    (/\ pc \in LikesPcs
     /\ frozen >= IdlePolls
     /\ last_count + 1 = num_of_likes)
        => /\ pc = "likes_returned"
           /\ Len(list_of_users) = num_of_likes - 1

\* target 5, frozen at 4: a list of 4 entries is returned
C3_Witness ==
    /\ pc = "likes_returned"
    /\ frozen = IdlePolls
    /\ num_of_likes = 5
    /\ Len(list_of_users) = 4

\* C4: in a liker run whose count increased at every iteration so far, the
\* idle time is zero after each iteration and no stall error is raised.
C4_IncreasingNeverFatal ==
    (pc \in LikesPcs /\ polls > 0 /\ strict)
        => (update_delay = 0 /\ pc # "likes_raised")

C4_Witness ==
    /\ pc = "likes_returned"
    /\ strict
    /\ polls = 3
    /\ num_of_likes = 4
    /\ Len(list_of_users) = 4

\* C5: across an iteration of either loop the running list keeps every name
\* it held (it is the union of the parses so far) and does not get shorter.
C5_RunningListIsUnion ==
    [][polls' = polls + 1 =>
          /\ Range(list_of_users) \subseteq Range(list_of_users')
          /\ Len(list_of_users') >= Len(list_of_users)]_vars

\* C6: the list a materialization run returns holds no name twice.
C6_ReturnedListNoDuplicates ==
    pc \in {"users_returned", "likes_returned"} =>
        \A j, k \in 1..Len(list_of_users) :
            list_of_users[j] = list_of_users[k] => j = k

\* C16: in every iteration of a materialization loop the scroll, the wait
\* and the reading of the panel happen in that order: the wait of the
\* iteration lies between its scroll and the reading that is parsed.
C16_ScrollWaitRead ==
    (pc \in UsersPcs \cup LikesPcs /\ polls > 0) =>
        \E a, b, c \in 1..Len(ops) :
            /\ a < b /\ b < c
            /\ ops[a] = "scroll" /\ ops[b] = "sleep" /\ ops[c] = "read"

\* C21: a materialization run that returns normally returns a list of at
\* least the target count, or, for the liker run alone and only at the idle
\* threshold, of exactly target - 1 entries; the followers / following run
\* never returns a list shorter than its target.
C21_ReturnedSizeReachesTarget ==
    /\ pc = "users_returned" => Len(list_of_users) >= num_users
    /\ pc = "likes_returned" =>
           \/ Len(list_of_users) >= num_of_likes
           \/ /\ Len(list_of_users) = num_of_likes - 1
              /\ update_delay = StallLimit
              /\ frozen >= IdlePolls

\* a liker run of target 3 that returned 2 entries at the idle threshold
C21_Witness ==
    /\ pc = "likes_returned"
    /\ num_of_likes = 3
    /\ Len(list_of_users) = 2
    /\ update_delay = StallLimit
    /\ polls > IdlePolls

\* C20: a liker run is over (returned or raised) once 10 iterations have
\* passed since the parsed count last increased; an iteration that changes
\* the count without increasing it does not postpone the end.
C20_EndsTenPollsAfterIncrease ==
    (pc \in LikesPcs /\ since_inc >= IdlePolls) => pc # "likes_loop"

----------------------------------------------------------------------------
(* Claims about collect_posts_data and _get_like_data *)

\* position of the first occurrence of x in seq
FirstAt(seq, x) == CHOOSE k \in 1..Len(seq) :
                       seq[k] = x /\ \A h \in 1..(k - 1) : seq[h] # x

\* C10: in the first pass, after every 12th processed item the page is read
\* again and exactly its ids not recorded yet are appended at the end, once
\* each and in page order, the recorded ids keeping their positions; after
\* any other item the recorded ids are unchanged.
C10_RefreshAppendsUnseen ==
    [][(pc = "scan_loop" /\ scan_i' = scan_i + 1) =>
          LET old == Ids(data_per_post)
              new == Ids(data_per_post')
          IN  IF (scan_i + 1) % 12 = 0
              THEN /\ Len(new) >= Len(old)
                   /\ SubSeq(new, 1, Len(old)) = old
                   /\ LET added == SubSeq(new, Len(old) + 1, Len(new))
                      IN  /\ Range(added) = Range(links') \ Range(old)
                          /\ \A j, k \in 1..Len(added) :
                               j < k => FirstAt(links', added[j])
                                            < FirstAt(links', added[k])
              ELSE new = old]_vars

\* 13 recorded ids, and a refresh after item 12 that shows two recorded ids
\* and two new ones: 15 ids, the first 13 unchanged
C10_Witness ==
    /\ pc = "scan_loop"
    /\ scan_i = 12
    /\ links = Feed(12, 15)
    /\ Ids(data_per_post) = Feed(1, 15)
    /\ "comments" \in DOMAIN data_per_post[12]
    /\ "comments" \notin DOMAIN data_per_post[13]

\* C9: the walker fills the records in recorded order and, once the advance
\* found no next post, stops: no later record is materialized or given
\* likes / liked_by from the page still showing.
C9_WalkStopsAtLastPost ==
    /\ \A k \in 1..Len(data_per_post) :
         "likes" \in DOMAIN data_per_post[k] => k <= walk_i
    /\ stopped_at # 0 =>
         /\ pc \notin LikesPcs
         /\ \A k \in (stopped_at + 1)..Len(data_per_post) :
              "likes" \notin DOMAIN data_per_post[k]

\* C17: at every point of collect_posts_data the recorded list holds at
\* most one record per post id.
C17_OneRecordPerId ==
    \A j, k \in 1..Len(data_per_post) :
        data_per_post[j].id = data_per_post[k].id => j = k

\* C19: the first pass never reads data_per_post[i] beyond the end of the
\* recorded list, whatever the displayed count and the pages read.
C19_ScanIndexInBounds ==
    pc # "scan_index_error"

\* C18: when collect_posts_data has completed, every record holds comments,
\* likes and liked_by.
C18_EveryRecordFilled ==
    pc = "posts_returned" =>
        \A k \in 1..Len(data_per_post) :
            {"comments", "likes", "liked_by"} \subseteq DOMAIN data_per_post[k]

\* C11: a stall error raised for any post ends collect_posts_data with that
\* error: no further record is handled, and self.data is written by no step
\* other than the normal completion, which is then never reached.
C11_StallAbortsWalk ==
    [][/\ pc' # "posts_returned" => data' = data
       /\ pc \in {"likes_raised", "posts_raised"} =>
              /\ pc' = "posts_raised"
              /\ data_per_post' = data_per_post
              /\ walk_i' = walk_i]_vars

\* the stall of the second of two records, with follow data held before
C11_Witness ==
    /\ pc = "posts_raised"
    /\ walk_i = 1
    /\ Len(data_per_post) = 2
    /\ "likes" \in DOMAIN data_per_post[1]
    /\ "likes" \notin DOMAIN data_per_post[2]
    /\ data = Username :> FollowData(1, << <<"a">> >>, 0, <<>>)

----------------------------------------------------------------------------
(* Claims about collect_follow_diff *)

----------------------------------------------------------------------------
(* Claims about collect_follow_data *)

\* C15: when the followers (following) count link is absent, the helper
\* returns the empty list to collect_follow_data at once, no materialization
\* run is started for it and no error is raised, and collect_follow_data
\* records num_followers (num_following) = 0 with an empty list.
C15_AbsentLinkGivesEmpty ==
    [][/\ (pc = "followers_call" /\ ~affordance.followers) =>
              (pc' = "following_call" /\ followers' = <<>>)
       /\ (pc = "following_call" /\ ~affordance.following) =>
              (pc' = "follow_store" /\ following' = <<>>)
       /\ (pc' \in UsersPcs /\ phase' = "followers") => affordance.followers
       /\ (pc' \in UsersPcs /\ phase' = "following") => affordance.following
       /\ pc' = "follow_returned" =>
              /\ ~affordance.followers =>
                     /\ data'[Username].num_followers = 0
                     /\ data'[Username].followers = <<>>
              /\ ~affordance.following =>
                     /\ data'[Username].num_following = 0
                     /\ data'[Username].following = <<>>]_vars

\* no followers link, and two users followed
C15_Witness ==
    /\ pc = "follow_returned"
    /\ ~affordance.followers
    /\ affordance.following
    /\ data[Username].num_followers = 0
    /\ data[Username].followers = <<>>
    /\ data[Username].num_following = 2
    /\ polls > 0

----------------------------------------------------------------------------
(* Claims about output_data *)

\* the map a file stands for when it is read: its object, or the empty map
\* for a missing, empty or corrupt file
StartingMap(f) == IF f.kind = "object" THEN f.map ELSE EmptyDict

\* C14: output_data ends without error whatever the file is (missing, empty
\* or corrupt files count as the empty map), and the file it writes maps
\* every profile of the run to its fresh data and every other key the file
\* held before to its previous value.
C14_MergeUpdate ==
    [][/\ pc = "output_call" => pc' = "output_write"
       /\ pc = "output_write" =>
            /\ pc' = "output_returned"
            /\ file'.kind = "object"
            /\ \A u \in DOMAIN data :
                 u \in DOMAIN file'.map /\ file'.map[u] = data[u]
            /\ \A u \in DOMAIN StartingMap(file) \ DOMAIN data :
                 u \in DOMAIN file'.map /\ file'.map[u] = StartingMap(file)[u]]_vars

----------------------------------------------------------------------------
(* Claims about the parser *)

\* C7: for every text, _clean_list returns exactly one record per line that is
\* first or preceded by a line that is exactly "Follow" or "Following", in
\* increasing order of position; the record is the line itself, marked
\* verified iff a next line exists and is exactly "Verified" (so a name line
\* in last position gives an unverified record and the call still returns).
NameLines(lines) ==
    {i \in 1..Len(lines) :
        i = 1 \/ lines[i - 1] = <<Follow>> \/ lines[i - 1] = <<Following>>}

IsMarked(user) == Len(user) > 0 /\ user[Len(user)] = VerifiedTag

NameOf(user) == IF IsMarked(user) THEN SubSeq(user, 1, Len(user) - 1) ELSE user

C7_OneRecordPerNameLine ==
    pc = "clean_returned" =>
        LET lines == split(raw_string)
            idx == NameLines(lines)
        IN  /\ Len(list_of_users) = Cardinality(idx)
            /\ \A i \in idx :
                 LET k == Cardinality({j \in idx : j <= i})
                 IN  /\ NameOf(list_of_users[k]) = lines[i]
                     /\ IsMarked(list_of_users[k]) <=>
                            (i + 1 <= Len(lines) /\ lines[i + 1] = <<Verified>>)

\* a text with a verified record followed by a name line in last position
C7_Witness ==
    /\ pc = "clean_returned"
    /\ Len(list_of_users) = 2
    /\ IsMarked(list_of_users[1])
    /\ ~IsMarked(list_of_users[2])
    /\ Len(split(raw_string)) \in NameLines(split(raw_string))
    /\ NameOf(list_of_users[1]) = <<"a">>

\* C8: parsing the empty text yields the empty sequence (no record, so no
\* record with an empty name).
C8_EmptyBlobEmptySequence ==
    (pc = "clean_returned" /\ raw_string = <<>>) => list_of_users = <<>>

====
